---- MODULE Spec2Model ----
(***************************************************************************)
(* OrcaSignal v2.0: the on-chain risk registry (OrcaSignalRegistry), the    *)
(* session manager (YellowSessionManager) and the swap hook                *)
(* (OrcaSignalHook) of src/src/OrcaSignalHook.sol, and the backend         *)
(* services that analyse a token (RiskAnalyzer) and submit its scores      *)
(* (ContractService), as state machines.  One action per external          *)
(* function; a call that reverts is a step that changes nothing but the    *)
(* record of the last call.                                                *)
(***************************************************************************)
EXTENDS Integers, Sequences, FiniteSets, TLC

(***************************************************************************)
(* Bounds of the model.                                                    *)
(***************************************************************************)
\* The last block timestamp the registry specifications explore.
MaxTime == 2
\* How many session identifiers the session specifications let the session
\* table hold.
MaxSessions == 2
\* How many actions the session specifications let the action logs hold,
\* all sessions together.
MaxLog == 2

(***************************************************************************)
(* Program constants.                                                      *)
(***************************************************************************)
\* address(0), bytes32(0)
ZeroAddress == 0
\* the largest score validScores accepts
MAX_SCORE == 100
\* uint8 arguments and results are kept modulo 2^8
UINT8 == 256
\* uint256 public constant SESSION_TIMEOUT = 1 hours
SESSION_TIMEOUT == 3600
\* uint256 public constant MAX_ACTIONS_PER_SESSION = 100
MAX_ACTIONS_PER_SESSION == 100
\* uint8 public constant HIGH_RISK_THRESHOLD = 70
HIGH_RISK_THRESHOLD == 70
\* uint8 public constant MEDIUM_RISK_THRESHOLD = 40
MEDIUM_RISK_THRESHOLD == 40
\* enum HookMode { WARN_ONLY, BLOCK_HIGH, STRICT }
WARN_ONLY == 0
BLOCK_HIGH == 1
STRICT == 2

(***************************************************************************)
(* Inputs.  Accounts are the externally owned accounts that send           *)
(* transactions (account 1 deploys the contracts); an address argument may *)
(* also be address(0).                                                     *)
(***************************************************************************)
Deployer == 1
Accounts == {1, 2}
Addresses == Accounts \cup {ZeroAddress}
\* token addresses passed to the registry (address(0) is rejected)
Tokens == {ZeroAddress, 1, 2}
\* the tokens a record can be stored for
RealTokens == Tokens \ {ZeroAddress}
\* (holder, liquidity, governance) triples passed to updateRiskData: triples
\* of the repository's tests and scripts, the extremes, and triples with one
\* score out of range.
ValidTriples == { <<0, 0, 0>>, <<45, 32, 78>>, <<80, 10, 10>>, <<100, 100, 100>> }
InvalidTriples == { <<101, 60, 70>>, <<50, 101, 70>>, <<50, 60, 101>> }
ScoreTriples == ValidTriples \cup InvalidTriples
\* block.timestamp of the blocks of the session specifications: the
\* deployment block, the last block in which a session touched in the
\* deployment block is still live, and the first in which it is expired
SessionBlockTimes == {1, 1 + SESSION_TIMEOUT, 2 + SESSION_TIMEOUT}
\* block.prevrandao of a block
RandaoValues == {11}
\* bytes32(0): the session identifier no session has
NoSessionId == <<ZeroAddress, 0, 0>>
\* arguments of recordAction: actionType (1=view, 2=acknowledge), token, data
ActionTypes == {2}
ActionData == {"0x"}
\* finalStateHash arguments of settleSession
StateHashes == {1}
\* HookMode arguments of setHookMode
HookModes == {WARN_ONLY, BLOCK_HIGH, STRICT}
\* the scores of the grid of records of the hook decision specification:
\* the extremes and the values around the two thresholds
GridScores == {0, 39, 40, 69, 70, 100}
GridTriples == GridScores \X GridScores \X GridScores
\* (holder, liquidity, governance) triples written to the registry in the
\* hook specification: composites just below and at MEDIUM_RISK_THRESHOLD
\* (39, 40), just below and at HIGH_RISK_THRESHOLD (69, 70), a low
\* composite (33) with a high holder score, and a medium composite (51)
\* with a high governance score
HookTriples == { <<39, 40, 40>>, <<40, 40, 40>>, <<69, 70, 70>>,
                 <<70, 70, 70>>, <<80, 10, 10>>, <<45, 32, 78>> }

VARIABLES
    riskRegistry,        \* OrcaSignalRegistry: mapping(address => RiskData)
    authorizedUpdaters,  \* OrcaSignalRegistry: mapping(address => bool)
    owner,               \* OrcaSignalRegistry: address public owner
    sessions,            \* YellowSessionManager: mapping(bytes32 => Session)
    sessionActions,      \* YellowSessionManager: mapping(bytes32 => SessionAction[])
    userActiveSession,   \* YellowSessionManager: mapping(address => bytes32)
    blockTimestamp,      \* block.timestamp of the block being executed
    prevrandao,          \* block.prevrandao of the block being executed
    hookMode,            \* OrcaSignalHook: HookMode public hookMode
    hookOwner,           \* OrcaSignalHook: address public owner
    registryAddress,     \* ContractService: this.registryAddress
    submission,          \* ContractService: how the last submitRiskData settled
    riskCache,           \* RiskAnalyzer: cache, from "risk_" + tokenAddress
    lastCall             \* the last external call: what was asked, how it ended

registryVars == <<riskRegistry, authorizedUpdaters, owner>>
sessionVars == <<sessions, sessionActions, userActiveSession>>
blockVars == <<blockTimestamp, prevrandao>>
hookVars == <<hookMode, hookOwner>>
backendVars == <<registryAddress, submission, riskCache>>
vars == <<registryVars, sessionVars, blockVars, hookVars, backendVars, lastCall>>

\* The value of a mapping slot that was never written.
NoRiskData == [holderConcentration |-> 0, liquidityOwnership |-> 0,
               governanceCapture |-> 0, lastUpdated |-> 0,
               updater |-> ZeroAddress]

\* An external call and its outcome: err = "" when it succeeded and the revert
\* string otherwise.  A call that succeeded is recorded with its sender, the
\* key it was about (token, account or session identifier), its other
\* arguments and the events it emitted, in order; a call that reverted with
\* its function and its revert string alone.
Call(op, sender, target, arg, err, events) ==
    IF err = ""
    THEN [op |-> op, err |-> err, sender |-> sender, target |-> target,
          arg |-> arg, events |-> events]
    ELSE [op |-> op, err |-> err, sender |-> 0, target |-> 0, arg |-> 0,
          events |-> <<>>]

Succeeded(c) == c.err = ""
Reverted(c) == c.err # ""
(***************************************************************************)
(* OrcaSignalRegistry: modifiers.                                          *)
(***************************************************************************)
onlyOwner(sender) == sender = owner

\* A variant of onlyAuthorized that lets the owner through whatever its flag.
onlyAuthorized_orOwner(sender) == authorizedUpdaters[sender] \/ sender = owner

onlyAuthorized(sender) == authorizedUpdaters[sender]

\* A variant of validScores that checks the first score only.
validScores_holderOnly(h, l, g) ==
    IF h > MAX_SCORE THEN "Holder concentration must be 0-100" ELSE ""

validScores(h, l, g) ==
    IF h > MAX_SCORE THEN "Holder concentration must be 0-100"
    ELSE IF l > MAX_SCORE THEN "Liquidity ownership must be 0-100"
    ELSE IF g > MAX_SCORE THEN "Governance capture must be 0-100"
    ELSE ""

(***************************************************************************)
(* OrcaSignalRegistry: views.                                              *)
(***************************************************************************)
getRiskData(token) == riskRegistry[token]

getRiskScores(token) ==
    LET data == riskRegistry[token]
    IN  <<data.holderConcentration, data.liquidityOwnership,
          data.governanceCapture, data.lastUpdated>>

hasRiskData(token) == riskRegistry[token].lastUpdated > 0

\* A variant of getCompositeRiskScore that rounds to the nearest integer, as
\* Math.round((h + l + g) / 3) does.
getCompositeRiskScore_rounded(token) ==
    LET data == riskRegistry[token]
    IN  IF data.lastUpdated = 0 THEN 0
        ELSE ((2 * (data.holderConcentration + data.liquidityOwnership
                    + data.governanceCapture) + 3) \div 6) % UINT8

getCompositeRiskScore(token) ==
    LET data == riskRegistry[token]
    IN  IF data.lastUpdated = 0 THEN 0
        ELSE ((data.holderConcentration + data.liquidityOwnership
               + data.governanceCapture) \div 3) % UINT8

\* A variant of getDataAge that returns the clock, not the difference.
getDataAge_clock(token) ==
    LET lastUpdate == riskRegistry[token].lastUpdated
    IN  IF lastUpdate = 0 THEN 0 ELSE blockTimestamp

getDataAge(token) ==
    LET lastUpdate == riskRegistry[token].lastUpdated
    IN  IF lastUpdate = 0 THEN 0 ELSE blockTimestamp - lastUpdate

(***************************************************************************)
(* OrcaSignalRegistry: state-changing functions.  Each is its revert       *)
(* string ("" when the call goes through: the modifiers in their order,    *)
(* then the body's requires) and the action that applies its writes.       *)
(***************************************************************************)
updateRiskDataRevert(sender, token, h, l, g) ==
    IF ~onlyAuthorized(sender) THEN "Not authorized to update risk data"
    ELSE IF validScores(h, l, g) # "" THEN validScores(h, l, g)
    ELSE IF token = ZeroAddress THEN "Invalid token address"
    ELSE ""

\* The record updateRiskData stores.
newRiskData(sender, h, l, g) ==
    [holderConcentration |-> h, liquidityOwnership |-> l,
     governanceCapture |-> g, lastUpdated |-> blockTimestamp,
     updater |-> sender]

updateRiskData(sender, token, h, l, g) ==
    LET err == updateRiskDataRevert(sender, token, h, l, g)
    IN  /\ riskRegistry' =
              IF err = ""
              THEN [riskRegistry EXCEPT ![token] = newRiskData(sender, h, l, g)]
              ELSE riskRegistry
        /\ lastCall' = Call("updateRiskData", sender, token, <<h, l, g>>, err,
                            << <<"RiskDataUpdated", token, h, l, g, sender,
                                 blockTimestamp>> >>)
        /\ UNCHANGED <<authorizedUpdaters, owner, sessionVars, blockVars, hookVars,
                       backendVars>>

\* A variant of setAuthorizedUpdater's checks without onlyOwner.
setAuthorizedUpdaterRevert_anyone(sender, updater) ==
    IF updater = ZeroAddress THEN "Invalid updater address" ELSE ""

setAuthorizedUpdaterRevert(sender, updater) ==
    IF ~onlyOwner(sender) THEN "Only owner can call this function"
    ELSE IF updater = ZeroAddress THEN "Invalid updater address"
    ELSE ""

setAuthorizedUpdater(sender, updater, authorized) ==
    LET err == setAuthorizedUpdaterRevert(sender, updater)
    IN  /\ authorizedUpdaters' =
              IF err = ""
              THEN [authorizedUpdaters EXCEPT ![updater] = authorized]
              ELSE authorizedUpdaters
        /\ lastCall' = Call("setAuthorizedUpdater", sender, updater, authorized,
                            err, << <<"UpdaterAuthorized", updater, authorized>> >>)
        /\ UNCHANGED <<riskRegistry, owner, sessionVars, blockVars, hookVars,
                       backendVars>>

\* A variant of transferOwnership's checks without the address(0) check.
transferOwnershipRevert_allowZero(sender, newOwner) ==
    IF ~onlyOwner(sender) THEN "Only owner can call this function" ELSE ""

transferOwnershipRevert(sender, newOwner) ==
    IF ~onlyOwner(sender) THEN "Only owner can call this function"
    ELSE IF newOwner = ZeroAddress THEN "Invalid new owner address"
    ELSE ""

transferOwnership(sender, newOwner) ==
    LET err == transferOwnershipRevert(sender, newOwner)
    IN  /\ owner' = IF err = "" THEN newOwner ELSE owner
        /\ lastCall' = Call("transferOwnership", sender, newOwner, 0, err, <<>>)
        /\ UNCHANGED <<riskRegistry, authorizedUpdaters, sessionVars, blockVars,
                       hookVars, backendVars>>

(***************************************************************************)
(* YellowSessionManager.  A session identifier is                          *)
(* keccak256(abi.encodePacked(msg.sender, block.timestamp,                 *)
(* block.prevrandao)): the hash is taken as injective, so the identifier   *)
(* is the triple it hashes, and never bytes32(0).                          *)
(***************************************************************************)
NoSession == [user |-> ZeroAddress, startTime |-> 0, lastActivity |-> 0,
              isActive |-> FALSE, actionsCount |-> 0, stateHash |-> 0]

sessionIdOf(sender) == <<sender, blockTimestamp, prevrandao>>

\* sessions[sessionId] and sessionActions[sessionId]: a slot never written
\* reads as zero.
getSession(sessionId) ==
    IF sessionId \in DOMAIN sessions THEN sessions[sessionId] ELSE NoSession

getSessionActions(sessionId) ==
    IF sessionId \in DOMAIN sessionActions THEN sessionActions[sessionId] ELSE <<>>

getUserActiveSession(user) == userActiveSession[user]

\* A variant of sessionExpired that measures the timeout from the start of
\* the session.
sessionExpired_fromStart(session) ==
    ~(blockTimestamp <= session.startTime + SESSION_TIMEOUT)

sessionExpired(session) ==
    ~(blockTimestamp <= session.lastActivity + SESSION_TIMEOUT)

\* A variant of isSessionValid that does not look at actionsCount.
isSessionValid_noCap(sessionId) ==
    LET session == getSession(sessionId)
    IN  /\ session.isActive
        /\ blockTimestamp <= session.lastActivity + SESSION_TIMEOUT

isSessionValid(sessionId) ==
    LET session == getSession(sessionId)
    IN  /\ session.isActive
        /\ blockTimestamp <= session.lastActivity + SESSION_TIMEOUT
        /\ session.actionsCount < MAX_ACTIONS_PER_SESSION

\* A variant of _endSession that leaves the user's pointer as it is.
endSession_keepPointer(ss, uas, sessionId) ==
    LET session == IF sessionId \in DOMAIN ss THEN ss[sessionId] ELSE NoSession
    IN  [sessions |-> (sessionId :> [session EXCEPT !.isActive = FALSE]) @@ ss,
         userActiveSession |-> uas]

\* _endSession(sessionId) applied to the tables ss (sessions) and uas
\* (userActiveSession): the tables after it.
endSession(ss, uas, sessionId) ==
    LET session == IF sessionId \in DOMAIN ss THEN ss[sessionId] ELSE NoSession
    IN  [sessions |-> (sessionId :> [session EXCEPT !.isActive = FALSE]) @@ ss,
         userActiveSession |-> [uas EXCEPT ![session.user] = NoSessionId]]

\* A variant of endsExisting: startSession never ends the recorded session.
endsExisting_never(sender) == FALSE

\* startSession: whether the caller's recorded session is force-ended first.
endsExisting(sender) ==
    LET existingSession == userActiveSession[sender]
    IN  existingSession # NoSessionId /\ getSession(existingSession).isActive

startSession(sender) ==
    LET existingSession == userActiveSession[sender]
        ended == IF endsExisting(sender)
                 THEN endSession(sessions, userActiveSession, existingSession)
                 ELSE [sessions |-> sessions,
                       userActiveSession |-> userActiveSession]
        sessionId == sessionIdOf(sender)
        created == [user |-> sender, startTime |-> blockTimestamp,
                    lastActivity |-> blockTimestamp, isActive |-> TRUE,
                    actionsCount |-> 0, stateHash |-> 0]
    IN  /\ sessions' = (sessionId :> created) @@ ended.sessions
        /\ userActiveSession' =
              [ended.userActiveSession EXCEPT ![sender] = sessionId]
        /\ lastCall' = Call("startSession", sender, sessionId, 0, "",
                            << <<"SessionStarted", sessionId, sender>> >>)
        /\ UNCHANGED <<sessionActions, registryVars, blockVars, hookVars,
                       backendVars>>

\* A variant of recordAction's checks whose cap lets the action through
\* while actionsCount <= MAX_ACTIONS_PER_SESSION.
recordActionRevert_capInclusive(sender, sessionId) ==
    LET session == getSession(sessionId)
    IN  IF ~session.isActive THEN "Session not active"
        ELSE IF session.user # sender THEN "Not session owner"
        ELSE IF sessionExpired(session) THEN "Session expired"
        ELSE IF ~(session.actionsCount <= MAX_ACTIONS_PER_SESSION)
             THEN "Session action limit reached"
        ELSE ""

\* A variant of recordAction's checks that looks at the cap before the
\* timeout.
recordActionRevert_capFirst(sender, sessionId) ==
    LET session == getSession(sessionId)
    IN  IF ~session.isActive THEN "Session not active"
        ELSE IF session.user # sender THEN "Not session owner"
        ELSE IF ~(session.actionsCount < MAX_ACTIONS_PER_SESSION)
             THEN "Session action limit reached"
        ELSE IF sessionExpired(session) THEN "Session expired"
        ELSE ""

recordActionRevert(sender, sessionId) ==
    LET session == getSession(sessionId)
    IN  IF ~session.isActive THEN "Session not active"
        ELSE IF session.user # sender THEN "Not session owner"
        ELSE IF sessionExpired(session) THEN "Session expired"
        ELSE IF ~(session.actionsCount < MAX_ACTIONS_PER_SESSION)
             THEN "Session action limit reached"
        ELSE ""

\* _handleRiskAcknowledgment: the event it emits, if any.
handleRiskAcknowledgment(sessionId, tokenAddress) ==
    IF hasRiskData(tokenAddress)
    THEN << <<"RiskAcknowledged", sessionId, tokenAddress,
              getCompositeRiskScore(tokenAddress)>> >>
    ELSE <<>>

\* A variant of recordAction that pushes the action before its checks and
\* keeps it when they fail.
recordAction_pushFirst(sender, sessionId, actionType, tokenAddress, data) ==
    LET err == recordActionRevert(sender, sessionId)
        session == getSession(sessionId)
        action == [actionType |-> actionType, tokenAddress |-> tokenAddress,
                   timestamp |-> blockTimestamp, data |-> data]
    IN  /\ sessionActions' =
              (sessionId :> Append(getSessionActions(sessionId), action))
              @@ sessionActions
        /\ sessions' =
              IF err = ""
              THEN (sessionId :> [session EXCEPT
                                     !.actionsCount = session.actionsCount + 1,
                                     !.lastActivity = blockTimestamp])
                   @@ sessions
              ELSE sessions
        /\ lastCall' = Call("recordAction", sender, sessionId,
                            <<actionType, tokenAddress, data>>, err, <<>>)
        /\ UNCHANGED <<userActiveSession, registryVars, blockVars, hookVars,
                       backendVars>>

recordAction(sender, sessionId, actionType, tokenAddress, data) ==
    LET err == recordActionRevert(sender, sessionId)
        session == getSession(sessionId)
        action == [actionType |-> actionType, tokenAddress |-> tokenAddress,
                   timestamp |-> blockTimestamp, data |-> data]
    IN  /\ sessionActions' =
              IF err = ""
              THEN (sessionId :> Append(getSessionActions(sessionId), action))
                   @@ sessionActions
              ELSE sessionActions
        /\ sessions' =
              IF err = ""
              THEN (sessionId :> [session EXCEPT
                                     !.actionsCount = session.actionsCount + 1,
                                     !.lastActivity = blockTimestamp])
                   @@ sessions
              ELSE sessions
        /\ lastCall' = Call("recordAction", sender, sessionId,
                            <<actionType, tokenAddress, data>>, err,
                            << <<"ActionExecuted", sessionId, actionType,
                                 tokenAddress>> >>
                            \o (IF actionType = 2
                                THEN handleRiskAcknowledgment(sessionId, tokenAddress)
                                ELSE <<>>))
        /\ UNCHANGED <<userActiveSession, registryVars, blockVars, hookVars,
                       backendVars>>

\* A variant of settleSession's checks that also turns down an expired
\* session.
settleSessionRevert_unexpiredOnly(sender, sessionId) ==
    LET session == getSession(sessionId)
    IN  IF ~session.isActive THEN "Session not active"
        ELSE IF session.user # sender THEN "Not session owner"
        ELSE IF sessionExpired(session) THEN "Session expired"
        ELSE ""

settleSessionRevert(sender, sessionId) ==
    LET session == getSession(sessionId)
    IN  IF ~session.isActive THEN "Session not active"
        ELSE IF session.user # sender THEN "Not session owner"
        ELSE ""

settleSession(sender, sessionId, finalStateHash) ==
    LET err == settleSessionRevert(sender, sessionId)
        session == getSession(sessionId)
    IN  /\ sessions' =
              IF err = ""
              THEN (sessionId :> [session EXCEPT !.stateHash = finalStateHash,
                                                 !.isActive = FALSE])
                   @@ sessions
              ELSE sessions
        /\ userActiveSession' =
              IF err = ""
              THEN [userActiveSession EXCEPT ![sender] = NoSessionId]
              ELSE userActiveSession
        /\ lastCall' = Call("settleSession", sender, sessionId, finalStateHash,
                            err, << <<"SessionSettled", sessionId, sender,
                                     session.actionsCount>> >>)
        /\ UNCHANGED <<sessionActions, registryVars, blockVars, hookVars,
                       backendVars>>

\* A variant of cleanupExpiredSession's checks that takes a session for
\* expired from lastActivity + SESSION_TIMEOUT on.
cleanupExpiredSessionRevert_atBoundary(sessionId) ==
    LET session == getSession(sessionId)
    IN  IF ~session.isActive THEN "Session not active"
        ELSE IF ~(blockTimestamp >= session.lastActivity + SESSION_TIMEOUT)
             THEN "Session not expired"
        ELSE ""

cleanupExpiredSessionRevert(sessionId) ==
    LET session == getSession(sessionId)
    IN  IF ~session.isActive THEN "Session not active"
        ELSE IF ~sessionExpired(session) THEN "Session not expired"
        ELSE ""

cleanupExpiredSession(sender, sessionId) ==
    LET err == cleanupExpiredSessionRevert(sessionId)
        ended == endSession(sessions, userActiveSession, sessionId)
    IN  /\ sessions' = IF err = "" THEN ended.sessions ELSE sessions
        /\ userActiveSession' =
              IF err = "" THEN ended.userActiveSession ELSE userActiveSession
        /\ lastCall' = Call("cleanupExpiredSession", sender, sessionId, 0, err, <<>>)
        /\ UNCHANGED <<sessionActions, registryVars, blockVars, hookVars,
                       backendVars>>

(***************************************************************************)
(* OrcaSignalHook.  The hook reads the registry through hasRiskData,       *)
(* getRiskScores and getCompositeRiskScore.  validateSwap and              *)
(* analyzeSwapRisk change no storage and emit events; getTokenRisk,        *)
(* shouldBlockSwap, batchAnalyzeRisk and getHookConfig are views.          *)
(***************************************************************************)
hookOnlyOwner(sender) == sender = hookOwner

\* A variant of riskReasonOf whose three score checks are strictly above
\* HIGH_RISK_THRESHOLD.
riskReasonOf_strictlyAbove(holderConc, liquidityOwn, govCapture, risk) ==
    IF holderConc > HIGH_RISK_THRESHOLD THEN "High holder concentration risk"
    ELSE IF liquidityOwn > HIGH_RISK_THRESHOLD
         THEN "High liquidity ownership risk"
    ELSE IF govCapture > HIGH_RISK_THRESHOLD
         THEN "High governance capture risk"
    ELSE IF risk >= MEDIUM_RISK_THRESHOLD THEN "Multiple moderate risk factors"
    ELSE "Low risk profile"

\* A variant of riskReasonOf that looks at the liquidity score before the
\* holder score.
riskReasonOf_liquidityFirst(holderConc, liquidityOwn, govCapture, risk) ==
    IF liquidityOwn >= HIGH_RISK_THRESHOLD THEN "High liquidity ownership risk"
    ELSE IF holderConc >= HIGH_RISK_THRESHOLD
         THEN "High holder concentration risk"
    ELSE IF govCapture >= HIGH_RISK_THRESHOLD
         THEN "High governance capture risk"
    ELSE IF risk >= MEDIUM_RISK_THRESHOLD THEN "Multiple moderate risk factors"
    ELSE "Low risk profile"

\* The reason getTokenRisk and _getTokenRiskWithReason give for a token with
\* a record: the first of the three scores at or above HIGH_RISK_THRESHOLD,
\* else the composite against MEDIUM_RISK_THRESHOLD.
riskReasonOf(holderConc, liquidityOwn, govCapture, risk) ==
    IF holderConc >= HIGH_RISK_THRESHOLD THEN "High holder concentration risk"
    ELSE IF liquidityOwn >= HIGH_RISK_THRESHOLD
         THEN "High liquidity ownership risk"
    ELSE IF govCapture >= HIGH_RISK_THRESHOLD
         THEN "High governance capture risk"
    ELSE IF risk >= MEDIUM_RISK_THRESHOLD THEN "Multiple moderate risk factors"
    ELSE "Low risk profile"

\* getTokenRisk(token): <<risk, reason>>
getTokenRisk(token) ==
    IF ~hasRiskData(token) THEN <<0, "No risk data available">>
    ELSE LET scores == getRiskScores(token)
             risk == getCompositeRiskScore(token)
         IN  <<risk, riskReasonOf(scores[1], scores[2], scores[3], risk)>>

\* _getTokenRiskWithReason(token): its results and the event it emits.
_getTokenRiskWithReason(token) ==
    IF ~hasRiskData(token)
    THEN [risk |-> 0, reason |-> "No risk data available", events |-> <<>>]
    ELSE LET scores == getRiskScores(token)
             risk == getCompositeRiskScore(token)
             reason == riskReasonOf(scores[1], scores[2], scores[3], risk)
         IN  [risk |-> risk, reason |-> reason,
              events |-> << <<"RiskExplanation", token, scores[1], scores[2],
                              scores[3], risk, reason>> >>]

\* A variant of _shouldBlockSwap whose STRICT mode blocks above
\* MEDIUM_RISK_THRESHOLD only.
_shouldBlockSwap_strictAbove(riskScore) ==
    IF hookMode = WARN_ONLY THEN FALSE
    ELSE IF hookMode = BLOCK_HIGH THEN riskScore >= HIGH_RISK_THRESHOLD
    ELSE riskScore > MEDIUM_RISK_THRESHOLD

_shouldBlockSwap(riskScore) ==
    IF hookMode = WARN_ONLY THEN FALSE
    ELSE IF hookMode = BLOCK_HIGH THEN riskScore >= HIGH_RISK_THRESHOLD
    ELSE riskScore >= MEDIUM_RISK_THRESHOLD

\* A variant of shouldBlockSwap that returns the first token's reason when
\* the two risks are equal.
shouldBlockSwap_tieFirst(token0, token1) ==
    LET r0 == getTokenRisk(token0)
        r1 == getTokenRisk(token1)
        maxRisk == IF r0[1] > r1[1] THEN r0[1] ELSE r1[1]
    IN  <<_shouldBlockSwap(maxRisk), IF r0[1] >= r1[1] THEN r0[2] ELSE r1[2]>>

\* shouldBlockSwap(token0, token1): <<shouldBlock, reason>>
shouldBlockSwap(token0, token1) ==
    LET r0 == getTokenRisk(token0)
        r1 == getTokenRisk(token1)
        maxRisk == IF r0[1] > r1[1] THEN r0[1] ELSE r1[1]
    IN  <<_shouldBlockSwap(maxRisk), IF r0[1] > r1[1] THEN r0[2] ELSE r1[2]>>

\* batchAnalyzeRisk(tokens): <<risks, reasons>>
batchAnalyzeRisk(tokens) ==
    << [i \in 1 .. Len(tokens) |-> getTokenRisk(tokens[i])[1]],
       [i \in 1 .. Len(tokens) |-> getTokenRisk(tokens[i])[2]] >>

\* getHookConfig(): <<mode, highThreshold, mediumThreshold>>
getHookConfig == <<hookMode, HIGH_RISK_THRESHOLD, MEDIUM_RISK_THRESHOLD>>

\* A variant of swapRisk that emits the warning for every maximum at or
\* above MEDIUM_RISK_THRESHOLD, blocked or not.
swapRisk_warnAlso(poolId, token0, token1) ==
    LET r0 == _getTokenRiskWithReason(token0)
        r1 == _getTokenRiskWithReason(token1)
        maxRisk == IF r0.risk > r1.risk THEN r0.risk ELSE r1.risk
        maxRiskReason == IF r0.risk > r1.risk THEN r0.reason ELSE r1.reason
        shouldBlock == _shouldBlockSwap(maxRisk)
    IN  [shouldBlock |-> shouldBlock,
         riskReason |-> maxRiskReason,
         events |->
             r0.events \o r1.events \o
             (IF shouldBlock
              THEN << <<"SwapBlocked", poolId, token0, token1, r0.risk, r1.risk,
                        "High risk detected: " \o maxRiskReason>> >>
              ELSE <<>>) \o
             (IF maxRisk >= MEDIUM_RISK_THRESHOLD
              THEN << <<"SwapWarning", poolId, token0, token1, r0.risk, r1.risk,
                        "Medium risk detected: " \o maxRiskReason>> >>
              ELSE <<>>)]

\* What validateSwap(token0, token1) and analyzeSwapRisk(key) compute, poolId
\* being bytes32(0) for the first and key.toId() for the second: the two
\* results and the events emitted, in order.
swapRisk(poolId, token0, token1) ==
    LET r0 == _getTokenRiskWithReason(token0)
        r1 == _getTokenRiskWithReason(token1)
        maxRisk == IF r0.risk > r1.risk THEN r0.risk ELSE r1.risk
        maxRiskReason == IF r0.risk > r1.risk THEN r0.reason ELSE r1.reason
        shouldBlock == _shouldBlockSwap(maxRisk)
    IN  [shouldBlock |-> shouldBlock,
         riskReason |-> maxRiskReason,
         events |->
             r0.events \o r1.events \o
             (IF shouldBlock
              THEN << <<"SwapBlocked", poolId, token0, token1, r0.risk, r1.risk,
                        "High risk detected: " \o maxRiskReason>> >>
              ELSE IF maxRisk >= MEDIUM_RISK_THRESHOLD
              THEN << <<"SwapWarning", poolId, token0, token1, r0.risk, r1.risk,
                        "Medium risk detected: " \o maxRiskReason>> >>
              ELSE <<>>)]

validateSwap(sender, token0, token1) ==
    LET r == swapRisk(0, token0, token1)
    IN  /\ lastCall' = Call("validateSwap", sender, <<token0, token1>>,
                            <<r.shouldBlock, r.riskReason>>, "", r.events)
        /\ UNCHANGED <<registryVars, sessionVars, blockVars, hookVars,
                       backendVars>>

\* key.toId(): the hash of the pool key, here the pool's two currencies
toId(key) == <<"PoolId", key.currency0, key.currency1>>

analyzeSwapRisk(sender, key) ==
    LET r == swapRisk(toId(key), key.currency0, key.currency1)
    IN  /\ lastCall' = Call("analyzeSwapRisk", sender,
                            <<key.currency0, key.currency1>>,
                            <<r.shouldBlock, r.riskReason>>, "", r.events)
        /\ UNCHANGED <<registryVars, sessionVars, blockVars, hookVars,
                       backendVars>>

setHookModeRevert(sender) ==
    IF ~hookOnlyOwner(sender) THEN "Only owner" ELSE ""

setHookMode(sender, mode) ==
    LET err == setHookModeRevert(sender)
    IN  /\ hookMode' = IF err = "" THEN mode ELSE hookMode
        /\ lastCall' = Call("setHookMode", sender, 0, mode, err, <<>>)
        /\ UNCHANGED <<hookOwner, registryVars, sessionVars, blockVars,
                       backendVars>>

hookTransferOwnershipRevert(sender, newOwner) ==
    IF ~hookOnlyOwner(sender) THEN "Only owner"
    ELSE IF newOwner = ZeroAddress THEN "Invalid address"
    ELSE ""

hookTransferOwnership(sender, newOwner) ==
    LET err == hookTransferOwnershipRevert(sender, newOwner)
    IN  /\ hookOwner' = IF err = "" THEN newOwner ELSE hookOwner
        /\ lastCall' = Call("hookTransferOwnership", sender, newOwner, 0, err,
                            <<>>)
        /\ UNCHANGED <<hookMode, registryVars, sessionVars, blockVars,
                       backendVars>>

(***************************************************************************)
(* ContractService (src/backend/services/contractService.js): the backend  *)
(* service that submits scores to the registry, called by the route        *)
(* POST /api/submit-risk once tokenAddress, riskData and privateKey are    *)
(* all present.  A JavaScript value is written with its type: undefined, a *)
(* number, or the riskScores object with its three properties.             *)
(***************************************************************************)
JsUndefined == [type |-> "undefined"]
JsNumber(n) == [type |-> "number", value |-> n]
JsScores(h, l, g) ==
    [type |-> "object", holderConcentration |-> h, liquidityOwnership |-> l,
     governanceCapture |-> g]

\* a < n and a > n of JavaScript: undefined converts to NaN, and every
\* comparison with NaN is false
jsLess(a, n) == a.type = "number" /\ a.value < n
jsGreater(a, n) == a.type = "number" /\ a.value > n

\* riskScores objects whose three scores are numbers of the range: its two
\* ends and the triple of the repository's tests
ValidJsScores ==
    {JsScores(JsNumber(s[1]), JsNumber(s[2]), JsNumber(s[3])) :
         s \in {<<0, 0, 0>>, <<45, 32, 78>>, <<100, 100, 100>>}}
\* riskScores objects with the value v in one place and a number of the
\* range in the two others
JsScoresWith(v) ==
    {JsScores(v, JsNumber(32), JsNumber(78)),
     JsScores(JsNumber(45), v, JsNumber(78)),
     JsScores(JsNumber(45), JsNumber(32), v)}
\* the riskData objects of the request body: without riskScores, and with a
\* riskScores object whose scores are all in the range, or one of them just
\* below it, just above it, or missing
RiskDataInputs ==
    {[riskScores |-> s] :
         s \in {JsUndefined} \cup ValidJsScores \cup JsScoresWith(JsNumber(-1))
                   \cup JsScoresWith(JsNumber(101)) \cup JsScoresWith(JsUndefined)}

\* process.env.ORCA_SIGNAL_REGISTRY_ADDRESS: not set, the address the
\* registry is deployed at, an address without code
NotConfigured == ""
RegistryContract == "0xRegistry"
NoContract == "0xNoCode"
ConfiguredAddresses == {NotConfigured, RegistryContract, NoContract}

\* provider.getCode(address): "0x" where no contract is deployed
getCode(address) == IF address = RegistryContract THEN "0x6080" ELSE "0x"

\* tx.hash: the hash of the signed transaction, taken as injective
txHash(sender, token, h, l, g) ==
    "0xtx" \o ToString(<<sender, token, h, l, g, blockTimestamp>>)

\* '0x' and 64 random hexadecimal digits: no transaction has such a hash,
\* but for a collision
MockTxHashes == {"0x3f", "0xe8"}

\* submission records the last submitRiskData: its arguments, whether its
\* promise resolved or rejected and with what value, the calls it made to the
\* provider and the contract, and the error of the inner try, if any.  This
\* is its value before submitRiskData was ever called.
NoSubmission ==
    [request |-> <<>>, settled |-> "none", value |-> "", contractError |-> "",
     calls |-> <<>>]

\* A variant of the range check that looks at the upper end only.
scoresOutOfRange_upperOnly(scores) ==
    \/ jsGreater(scores.holderConcentration, 100)
    \/ jsGreater(scores.liquidityOwnership, 100)
    \/ jsGreater(scores.governanceCapture, 100)

\* the range check of submitRiskData
scoresOutOfRange(scores) ==
    \/ jsLess(scores.holderConcentration, 0)
    \/ jsGreater(scores.holderConcentration, 100)
    \/ jsLess(scores.liquidityOwnership, 0)
    \/ jsGreater(scores.liquidityOwnership, 100)
    \/ jsLess(scores.governanceCapture, 0)
    \/ jsGreater(scores.governanceCapture, 100)

\* What submitRiskData throws before it reaches the contract, "" when
\* nothing: the address check, the destructuring of riskData.riskScores (a
\* TypeError when it is undefined), the range check.
thrownBeforeContract(riskData) ==
    IF registryAddress = NotConfigured
    THEN "Registry contract address not configured"
    ELSE IF riskData.riskScores.type # "object"
    THEN "Cannot destructure property 'holderConcentration' of 'riskData.riskScores' as it is undefined."
    ELSE IF scoresOutOfRange(riskData.riskScores)
    THEN "Risk scores must be between 0 and 100"
    ELSE ""

\* ethers encodes a uint8 argument from a number in 0 .. 2^8 - 1, and throws
\* on anything else
encodesUint8(v) == v.type = "number" /\ v.value \in 0 .. (UINT8 - 1)

\* The inner try of submitRiskData: the calls it makes, in order, and the
\* error that ends it ("" when the transaction is mined).  The wallet of
\* privateKey is the account the registry sees as msg.sender; a transaction
\* that would revert fails when it is submitted.
contractSubmission(tokenAddress, scores, privateKey) ==
    IF getCode(registryAddress) = "0x"
    THEN [calls |-> <<"getCode">>,
          error |-> "Contract not deployed or insufficient funds"]
    ELSE IF ~(/\ encodesUint8(scores.holderConcentration)
              /\ encodesUint8(scores.liquidityOwnership)
              /\ encodesUint8(scores.governanceCapture))
    THEN [calls |-> <<"getCode", "updateRiskData">>,
          error |-> "invalid BigNumberish value"]
    ELSE LET revert == updateRiskDataRevert(privateKey, tokenAddress,
                           scores.holderConcentration.value,
                           scores.liquidityOwnership.value,
                           scores.governanceCapture.value)
         IN  IF revert # ""
             THEN [calls |-> <<"getCode", "updateRiskData">>, error |-> revert]
             ELSE [calls |-> <<"getCode", "updateRiskData", "wait">>,
                   error |-> ""]

submitRiskData(tokenAddress, riskData, privateKey) ==
    LET thrown == thrownBeforeContract(riskData)
        scores == riskData.riskScores
        tried == contractSubmission(tokenAddress, scores, privateKey)
        h == scores.holderConcentration.value
        l == scores.liquidityOwnership.value
        g == scores.governanceCapture.value
        request == <<tokenAddress, riskData, privateKey>>
    IN  IF thrown # ""
        THEN /\ submission' =
                    [request |-> request, settled |-> "rejected",
                     value |-> "Failed to submit to contract: " \o thrown,
                     contractError |-> "", calls |-> <<>>]
             /\ lastCall' = Call("submitRiskData", privateKey, tokenAddress,
                                 0, thrown, <<>>)
             /\ UNCHANGED <<registryAddress, riskCache, registryVars,
                            sessionVars, blockVars, hookVars>>
        ELSE IF tried.error # ""
        THEN /\ \E mockTxHash \in MockTxHashes :
                    submission' =
                        [request |-> request, settled |-> "resolved",
                         value |-> mockTxHash,
                         contractError |-> tried.error, calls |-> tried.calls]
             /\ lastCall' = Call("submitRiskData", privateKey, tokenAddress,
                                 0, "", <<>>)
             /\ UNCHANGED <<registryAddress, riskCache, registryVars,
                            sessionVars, blockVars, hookVars>>
        ELSE /\ riskRegistry' =
                    [riskRegistry EXCEPT
                         ![tokenAddress] = newRiskData(privateKey, h, l, g)]
             /\ submission' =
                    [request |-> request, settled |-> "resolved",
                     value |-> txHash(privateKey, tokenAddress, h, l, g),
                     contractError |-> "", calls |-> tried.calls]
             /\ lastCall' = Call("submitRiskData", privateKey, tokenAddress,
                                 <<h, l, g>>, "",
                                 << <<"RiskDataUpdated", tokenAddress, h, l, g,
                                      privateKey, blockTimestamp>> >>)
             /\ UNCHANGED <<authorizedUpdaters, owner, registryAddress,
                            riskCache, sessionVars, blockVars, hookVars>>

setContractAddress(address) ==
    /\ registryAddress' = address
    /\ lastCall' = Call("setContractAddress", ZeroAddress, address, 0, "", <<>>)
    /\ UNCHANGED <<submission, riskCache, registryVars, sessionVars, blockVars,
                   hookVars>>

(***************************************************************************)
(* RiskAnalyzer (backend/services/riskAnalyzer.js): the analysis of a      *)
(* token, kept in a cache whose entries expire.                            *)
(***************************************************************************)
\* A variant of compositeScore that rounds up, as Math.ceil does.
compositeScore_ceil(h, l, g) == (h + l + g + 2) \div 3

\* Math.round((h + l + g) / 3): the nearest integer, a half rounded up, which
\* is floor((h + l + g) / 3 + 1 / 2)
compositeScore(h, l, g) == (2 * (h + l + g) + 3) \div 6

\* generateRealisticScore(min, max): the integers it can return
generateRealisticScore(min, max) == min .. max

\* the draws of generateRealisticScore the specification follows: the ends
\* of each range and the values next to its lower end
ScoreDraws == {10, 15, 16, 20, 21, 75, 85, 90}

analyzeToken(tokenAddress) ==
    LET cached == riskCache[tokenAddress]
    IN  IF cached # JsUndefined
        THEN /\ lastCall' = Call("analyzeToken", ZeroAddress, tokenAddress,
                                 cached, "", <<>>)
             /\ UNCHANGED <<registryAddress, submission, riskCache,
                            registryVars, sessionVars, blockVars, hookVars>>
        ELSE \E holderConcentration
                    \in generateRealisticScore(15, 85) \cap ScoreDraws,
                liquidityOwnership
                    \in generateRealisticScore(20, 75) \cap ScoreDraws,
                governanceCapture
                    \in generateRealisticScore(10, 90) \cap ScoreDraws :
                 LET riskData ==
                         [riskScores |->
                              JsScores(JsNumber(holderConcentration),
                                       JsNumber(liquidityOwnership),
                                       JsNumber(governanceCapture)),
                          compositeScore |->
                              compositeScore(holderConcentration,
                                             liquidityOwnership,
                                             governanceCapture)]
                 IN  /\ riskCache' =
                            [riskCache EXCEPT ![tokenAddress] = riskData]
                     /\ lastCall' = Call("analyzeToken", ZeroAddress,
                                         tokenAddress, riskData, "", <<>>)
                     /\ UNCHANGED <<registryAddress, submission, registryVars,
                                    sessionVars, blockVars, hookVars>>

\* The cache drops an entry once its time to live (stdTTL) is over.
cacheExpires(tokenAddress) ==
    /\ riskCache[tokenAddress] # JsUndefined
    /\ riskCache' = [riskCache EXCEPT ![tokenAddress] = JsUndefined]
    /\ lastCall' = Call("cacheExpires", ZeroAddress, tokenAddress, 0, "", <<>>)
    /\ UNCHANGED <<registryAddress, submission, registryVars, sessionVars,
                   blockVars, hookVars>>

\* The backend services after their constructors ran with the environment's
\* registry address.
serviceConstructed(env) ==
    /\ registryAddress = env
    /\ submission = NoSubmission
    /\ riskCache = [tokenAddress \in Tokens |-> JsUndefined]

(***************************************************************************)
(* The chain: the next block has a later timestamp, and its own            *)
(* prevrandao.                                                             *)
(***************************************************************************)
nextBlock(d, r) ==
    /\ blockTimestamp' = blockTimestamp + d
    /\ prevrandao' = r
    /\ lastCall' = Call("nextBlock", ZeroAddress, 0, d, "", <<>>)
    /\ UNCHANGED <<registryVars, sessionVars, hookVars, backendVars>>

(***************************************************************************)
(* The contracts after their constructors ran, deployed by Deployer, in a  *)
(* block of timestamp t.                                                   *)
(***************************************************************************)
constructed(t) ==
    /\ riskRegistry = [a \in Tokens |-> NoRiskData]
    /\ authorizedUpdaters = [a \in Addresses |-> a = Deployer]
    /\ owner = Deployer
    /\ sessions = <<>>
    /\ sessionActions = <<>>
    /\ userActiveSession = [a \in Addresses |-> NoSessionId]
    /\ blockTimestamp = t
    /\ prevrandao \in {11}
    /\ hookMode = BLOCK_HIGH
    /\ hookOwner = Deployer
    /\ lastCall = Call("constructor", Deployer, 0, 0, "", <<>>)

(***************************************************************************)
(* Spec: the registry, called by every account with every input, on a      *)
(* chain whose blocks carry positive timestamps.                           *)
(***************************************************************************)
Init == constructed(1) /\ serviceConstructed(NotConfigured)

registryCalls ==
    \/ \E sender \in Accounts, token \in Tokens, s \in ScoreTriples :
           updateRiskData(sender, token, s[1], s[2], s[3])
    \/ \E sender \in Accounts, updater \in Addresses, authorized \in BOOLEAN :
           setAuthorizedUpdater(sender, updater, authorized)
    \/ \E sender \in Accounts, newOwner \in Addresses :
           transferOwnership(sender, newOwner)

Next ==
    \/ registryCalls
    \/ \E d \in 1 .. MaxTime :
           blockTimestamp + d <= MaxTime /\ nextBlock(d, prevrandao)

Spec == Init /\ [][Next]_vars

(***************************************************************************)
(* SpecAnyClock: the registry on a clock that may also read 0 when the     *)
(* registry is first written (a test that warps the clock to 0, a ledger   *)
(* whose clock counts from 0).                                             *)
(***************************************************************************)
InitAnyClock ==
    /\ \E t \in {0, 1} : constructed(t)
    /\ serviceConstructed(NotConfigured)

SpecAnyClock == InitAnyClock /\ [][Next]_vars

(***************************************************************************)
(* SpecSession: the session manager, called by every account, on a chain   *)
(* whose clock runs past the session timeout.  The registry stays as       *)
(* constructed.                                                            *)
(***************************************************************************)
\* The session identifiers a caller may pass: those in use, and bytes32(0),
\* which stands for every identifier that was never allocated.
SessionIdInputs == DOMAIN sessions \cup {NoSessionId}

\* the number of actions in the logs of the session identifiers ids
RECURSIVE logged(_)
logged(ids) ==
    IF ids = {} THEN 0
    ELSE LET id == CHOOSE x \in ids : TRUE
         IN  Len(sessionActions[id]) + logged(ids \ {id})

sessionCalls ==
    \/ \E sender \in Accounts :
           /\ Cardinality(DOMAIN sessions \cup {sessionIdOf(sender)}) <= MaxSessions
           /\ startSession(sender)
    \/ \E sender \in Accounts, sessionId \in SessionIdInputs,
          actionType \in ActionTypes, data \in ActionData :
           /\ logged(DOMAIN sessionActions) < MaxLog
           /\ recordAction(sender, sessionId, actionType, Deployer, data)
    \/ \E sender \in Accounts, sessionId \in SessionIdInputs,
          finalStateHash \in StateHashes :
           settleSession(sender, sessionId, finalStateHash)
    \/ \E sender \in Accounts, sessionId \in SessionIdInputs :
           cleanupExpiredSession(sender, sessionId)

NextSession ==
    \/ sessionCalls
    \/ \E t \in SessionBlockTimes, r \in RandaoValues :
           t > blockTimestamp /\ nextBlock(t - blockTimestamp, r)

SpecSession == Init /\ [][NextSession]_vars

(***************************************************************************)
(* SpecAtomic: the registry and the session manager together, with the     *)
(* inputs cut down to what makes each revert of updateRiskData and of      *)
(* recordAction happen: one session, started by the deployer, that may     *)
(* take actions up to the cap and outlive the timeout, and registry        *)
(* updates by both accounts.                                               *)
(***************************************************************************)
NextAtomic ==
    \/ \E sender \in Accounts, token \in Tokens,
          s \in {<<45, 32, 78>>} \cup InvalidTriples :
           updateRiskData(sender, token, s[1], s[2], s[3])
    \/ /\ sessions = <<>>
       /\ startSession(Deployer)
    \/ \E sender \in Accounts, sessionId \in SessionIdInputs,
          actionType \in ActionTypes, data \in ActionData :
           recordAction(sender, sessionId, actionType, Deployer, data)
    \/ \E sessionId \in SessionIdInputs, finalStateHash \in StateHashes :
           settleSession(Deployer, sessionId, finalStateHash)
    \/ /\ blockTimestamp < 2 + SESSION_TIMEOUT
       /\ nextBlock(2 + SESSION_TIMEOUT - blockTimestamp, prevrandao)

SpecAtomic == Init /\ [][NextAtomic]_vars

(***************************************************************************)
(* SpecHook: the hook over a registry the deployer writes, called by every *)
(* account with every pair of tokens, in one block.                        *)
(***************************************************************************)
NextHook ==
    \/ \E token \in RealTokens, s \in HookTriples :
           updateRiskData(Deployer, token, s[1], s[2], s[3])
    \/ \E sender \in Accounts, token0 \in Tokens, token1 \in Tokens :
           validateSwap(sender, token0, token1)
    \/ \E sender \in Accounts, token0 \in Tokens, token1 \in Tokens :
           analyzeSwapRisk(sender, [currency0 |-> token0, currency1 |-> token1])
    \/ \E sender \in Accounts, mode \in HookModes :
           setHookMode(sender, mode)
    \/ \E sender \in Accounts, newOwner \in Addresses :
           hookTransferOwnership(sender, newOwner)

SpecHook == Init /\ [][NextHook]_vars

(***************************************************************************)
(* SpecGrid: the hook decision over a grid of registry records.  The       *)
(* deployer first writes the records, at most one per token: any triple of *)
(* the grid for token 1, and a triple of HookTriples or (0, 0, 0) for      *)
(* token 2; then the hook is asked about every pair of tokens, in every    *)
(* mode.                                                                   *)
(***************************************************************************)
GridTriplesOf(token) ==
    IF token = 1 THEN GridTriples ELSE HookTriples \cup {<<0, 0, 0>>}

NextGrid ==
    \/ \E token \in RealTokens :
           \E s \in GridTriplesOf(token) :
               /\ lastCall.op \in {"constructor", "updateRiskData"}
               /\ ~hasRiskData(token)
               /\ updateRiskData(Deployer, token, s[1], s[2], s[3])
    \/ \E token0 \in Tokens, token1 \in Tokens :
           validateSwap(Deployer, token0, token1)
    \/ \E mode \in HookModes :
           setHookMode(Deployer, mode)

SpecGrid == Init /\ [][NextGrid]_vars

(***************************************************************************)
(* SpecBackend: the backend service, configured with every address, asked  *)
(* to submit every request body with the key of every account.             *)
(***************************************************************************)
InitBackend ==
    /\ constructed(1)
    /\ \E env \in ConfiguredAddresses : serviceConstructed(env)

NextBackend ==
    \/ \E tokenAddress \in Tokens, riskData \in RiskDataInputs,
          privateKey \in Accounts :
           submitRiskData(tokenAddress, riskData, privateKey)
    \/ \E address \in ConfiguredAddresses :
           setContractAddress(address)

SpecBackend == InitBackend /\ [][NextBackend]_vars

(***************************************************************************)
(* SpecAnalyzer: a token is analysed, and the analysis it got is submitted *)
(* to the registry with the key of an authorized updater; the cache entry  *)
(* may expire and the token be analysed again.                             *)
(***************************************************************************)
InitAnalyzer == constructed(1) /\ serviceConstructed(RegistryContract)

AnalyzedTokens == {1}

NextAnalyzer ==
    \/ \E tokenAddress \in AnalyzedTokens :
           analyzeToken(tokenAddress)
    \/ \E tokenAddress \in AnalyzedTokens :
           cacheExpires(tokenAddress)
    \/ \E tokenAddress \in AnalyzedTokens :
           /\ riskCache[tokenAddress] # JsUndefined
           /\ submitRiskData(tokenAddress, riskCache[tokenAddress], Deployer)

SpecAnalyzer == InitAnalyzer /\ [][NextAnalyzer]_vars

(***************************************************************************)
(* Properties.                                                             *)
(***************************************************************************)
\* the last call was this function, and went through
Did(op) == lastCall.op = op /\ lastCall.err = ""

\* the last call was this function, and reverted
Failed(op) == lastCall.op = op /\ lastCall.err # ""

NotAuthorized == "Not authorized to update risk data"
OnlyOwner == "Only owner can call this function"

\* C1: after a successful updateRiskData(token, h, l, g) of an authorized
\* caller, with token not address(0) and each score in 0..100, getRiskScores
\* and getRiskData return exactly (h, l, g) with the caller as updater, and
\* getCompositeRiskScore is floor((h + l + g) / 3); the composite of a token
\* never written is 0.
C1_UpdateThenRead ==
    /\ Did("updateRiskData") =>
           LET token == lastCall.target
               h == lastCall.arg[1]
               l == lastCall.arg[2]
               g == lastCall.arg[3]
           IN  /\ token # ZeroAddress
               /\ h \in 0 .. 100 /\ l \in 0 .. 100 /\ g \in 0 .. 100
               /\ getRiskScores(token) = <<h, l, g, blockTimestamp>>
               /\ getRiskData(token).holderConcentration = h
               /\ getRiskData(token).liquidityOwnership = l
               /\ getRiskData(token).governanceCapture = g
               /\ getRiskData(token).updater = lastCall.sender
               /\ 3 * getCompositeRiskScore(token) <= h + l + g
               /\ h + l + g < 3 * (getCompositeRiskScore(token) + 1)
    /\ \A token \in Tokens :
           riskRegistry[token] = NoRiskData => getCompositeRiskScore(token) = 0

\* C1's case: account 2, once authorized, wrote (45, 32, 78), whose sum is not
\* a multiple of 3, and the composite reads 51.
C1_Witness ==
    /\ Did("updateRiskData")
    /\ lastCall.sender = 2
    /\ lastCall.arg = <<45, 32, 78>>
    /\ getCompositeRiskScore(lastCall.target) = 51

\* C3 (as claimed): in every reachable state, updateRiskData with valid
\* arguments is rejected as unauthorized exactly for the callers that are
\* neither in the authorized-updater set nor the current owner.
C3_OwnerOrAuthorizedMayUpdate ==
    \A sender \in Accounts, token \in RealTokens, s \in ValidTriples :
        (updateRiskDataRevert(sender, token, s[1], s[2], s[3]) = NotAuthorized)
            <=> ~(authorizedUpdaters[sender] \/ sender = owner)

\* C4: every token that has risk data has each of its three scores at most
\* 100, and so a composite score at most 100.
C4_ScoresWithinBounds ==
    \A token \in Tokens :
        hasRiskData(token) =>
            /\ getRiskScores(token)[1] <= 100
            /\ getRiskScores(token)[2] <= 100
            /\ getRiskScores(token)[3] <= 100
            /\ getCompositeRiskScore(token) <= 100

\* C4's case: a token holds a record whose scores sit on the bound, after a
\* call with a score above it was turned down.
C4_Witness ==
    /\ Failed("updateRiskData")
    /\ lastCall.err = "Liquidity ownership must be 0-100"
    /\ \E token \in RealTokens :
           hasRiskData(token) /\ getRiskScores(token)[2] = 100

C6_DataAge ==
    [][\A token \in Tokens :
         /\ riskRegistry[token] = NoRiskData => getDataAge(token) = 0
         /\ (riskRegistry[token] = NoRiskData)' => getDataAge(token)' = 0
         /\ (lastCall'.op = "updateRiskData" /\ lastCall'.err = ""
             /\ lastCall'.target = token) => getDataAge(token)' = 0
         /\ (lastCall'.op = "nextBlock" /\ riskRegistry[token] # NoRiskData) =>
                /\ blockTimestamp' = blockTimestamp + lastCall'.arg
                /\ getDataAge(token)' = getDataAge(token) + lastCall'.arg]_vars

\* C6's case: a token was updated, the clock advanced by 1, and the token was
\* updated again, which took its age from 1 back to 0.
C6_Witness ==
    /\ Did("updateRiskData")
    /\ blockTimestamp = 2
    /\ getDataAge(lastCall.target) = 0
    /\ \E token \in RealTokens : getDataAge(token) = 1

\* C2: no operation partially applies: an updateRiskData call that reverts
\* leaves every record of the registry as it was, and a recordAction call
\* that reverts leaves every session's action log, actionsCount and
\* lastActivity as they were.
C2_NoPartialApplication ==
    [][/\ (lastCall'.op = "updateRiskData" /\ lastCall'.err # "") =>
              \A token \in Tokens : getRiskData(token)' = getRiskData(token)
       /\ (lastCall'.op = "recordAction" /\ lastCall'.err # "") =>
              \A sessionId \in DOMAIN sessionActions \cup SessionIdInputs :
                  /\ getSessionActions(sessionId)' = getSessionActions(sessionId)
                  /\ getSession(sessionId).actionsCount'
                         = getSession(sessionId).actionsCount
                  /\ getSession(sessionId).lastActivity'
                         = getSession(sessionId).lastActivity]_vars

\* C2's case: with a record in the registry, the deployer's session has
\* taken MAX_ACTIONS_PER_SESSION actions and its next recordAction was turned
\* down at the cap.
C2_Witness ==
    /\ Failed("recordAction")
    /\ lastCall.err = "Session action limit reached"
    /\ \E token \in RealTokens : hasRiskData(token)
    /\ \E sessionId \in DOMAIN sessions :
           /\ sessions[sessionId].actionsCount = MAX_ACTIONS_PER_SESSION
           /\ Len(getSessionActions(sessionId)) = MAX_ACTIONS_PER_SESSION

\* C7, the part C7_AsClaimed and C7_SetAuthorizedUpdater share: a
\* setAuthorizedUpdater call that reverts changes nothing in the registry;
\* one that goes through sets the identity's flag to the flag passed and no
\* other, after which the identity's updateRiskData calls with valid
\* arguments go through (flag true) or are rejected as unauthorized (false).
C7_Effect ==
    /\ (lastCall'.op = "setAuthorizedUpdater" /\ lastCall'.err # "") =>
           UNCHANGED registryVars
    /\ (lastCall'.op = "setAuthorizedUpdater" /\ lastCall'.err = "") =>
           /\ authorizedUpdaters' =
                  [authorizedUpdaters EXCEPT ![lastCall'.target] = lastCall'.arg]
           /\ \A updater \in Accounts, token \in RealTokens, s \in ValidTriples :
                  updater = lastCall'.target =>
                      ((updateRiskDataRevert(updater, token,
                                             s[1], s[2], s[3]) = "")'
                           <=> lastCall'.arg)
           /\ \A updater \in Accounts, token \in Tokens, s \in ScoreTriples :
                  updater = lastCall'.target =>
                      ((updateRiskDataRevert(updater, token,
                                             s[1], s[2], s[3]) = NotAuthorized)'
                           <=> ~lastCall'.arg)

\* C7 (as claimed): setAuthorizedUpdater(identity, flag) reverts for every
\* caller other than the owner and, called by the owner, goes through for
\* every identity and flag; with the effect of C7_Effect.
C7_OwnerSetsAnyIdentity ==
    \A sender \in Accounts, identity \in Addresses :
        (setAuthorizedUpdaterRevert(sender, identity) = "") <=> sender = owner

C7_AsClaimed ==
    [][C7_OwnerSetsAnyIdentity /\ C7_OwnerSetsAnyIdentity' /\ C7_Effect]_vars

\* C7 (amended): setAuthorizedUpdater(identity, flag) reverts with "Only
\* owner can call this function" for every caller other than the owner,
\* reverts with "Invalid updater address" when the owner passes address(0),
\* and goes through for the owner and every other identity and flag; with
\* the effect of C7_Effect.
C7_OwnerSetsNonZeroIdentity ==
    \A sender \in Accounts, identity \in Addresses :
        setAuthorizedUpdaterRevert(sender, identity) =
            IF sender # owner THEN OnlyOwner
            ELSE IF identity = ZeroAddress THEN "Invalid updater address"
            ELSE ""

C7_SetAuthorizedUpdater ==
    [][/\ C7_OwnerSetsNonZeroIdentity
       /\ C7_OwnerSetsNonZeroIdentity'
       /\ C7_Effect]_vars

\* C7's case: account 2 was authorized, wrote a record, and the owner has
\* just taken its authorization away.
C7_Witness ==
    /\ Did("setAuthorizedUpdater")
    /\ lastCall.target = 2 /\ lastCall.arg = FALSE
    /\ \E token \in RealTokens : getRiskData(token).updater = 2

\* C8, the part C8_AsClaimed and C8_TransferOwnership share: owner is never
\* address(0); transferOwnership(newOwner) reverts exactly when the caller is
\* not the owner or newOwner is address(0), and then leaves owner as it was;
\* when it goes through owner is newOwner.
C8_Checks ==
    /\ owner # ZeroAddress
    /\ \A sender \in Accounts, newOwner \in Addresses :
           transferOwnershipRevert(sender, newOwner) =
               IF sender # owner THEN OnlyOwner
               ELSE IF newOwner = ZeroAddress THEN "Invalid new owner address"
               ELSE ""

C8_Effect ==
    /\ (lastCall'.op = "transferOwnership" /\ lastCall'.err # "") =>
           UNCHANGED registryVars
    /\ (lastCall'.op = "transferOwnership" /\ lastCall'.err = "") =>
           /\ lastCall'.sender = owner
           /\ owner' = lastCall'.target

\* after a transferOwnership that went through, the calls of the account
\* that made it (the previous owner) to setAuthorizedUpdater and
\* transferOwnership revert
C8_PreviousOwnerLockedOut ==
    \A x \in Addresses :
        /\ setAuthorizedUpdaterRevert(lastCall.sender, x) = OnlyOwner
        /\ transferOwnershipRevert(lastCall.sender, x) = OnlyOwner

C9_DeauthorizedOwner ==
    ~authorizedUpdaters[owner] =>
        /\ \A x \in Accounts :
               /\ setAuthorizedUpdaterRevert(owner, x) = ""
               /\ transferOwnershipRevert(owner, x) = ""
        /\ \A token \in Tokens, s \in ScoreTriples :
               updateRiskDataRevert(owner, token, s[1], s[2], s[3]) = NotAuthorized

\* C9: right after construction the deployer is owner and authorized
\* updater; setAuthorizedUpdater(owner, false) by the owner leaves owner as
\* it was; and an owner whose flag is false can still call
\* setAuthorizedUpdater and transferOwnership, while its own updateRiskData
\* calls are rejected.
C9_OwnerKeepsOwnership ==
    [][/\ lastCall.op = "constructor" =>
              owner = Deployer /\ authorizedUpdaters[Deployer]
       /\ C9_DeauthorizedOwner
       /\ C9_DeauthorizedOwner'
       /\ (lastCall'.op = "setAuthorizedUpdater" /\ lastCall'.err = ""
           /\ lastCall'.target = owner /\ ~lastCall'.arg) =>
              /\ lastCall'.sender = owner
              /\ owner' = owner
              /\ ~authorizedUpdaters'[owner']]_vars

\* C9's case: the owner has just set its own flag to false.
C9_Witness ==
    /\ Did("setAuthorizedUpdater")
    /\ lastCall.sender = owner /\ lastCall.target = owner
    /\ lastCall.arg = FALSE
    /\ ~authorizedUpdaters[owner]

\* the sessions of a user whose isActive flag is true
activeSessionsOf(user) ==
    {sessionId \in DOMAIN sessions :
         sessions[sessionId].user = user /\ sessions[sessionId].isActive}

\* C10: in every reachable state of the session manager each user owns at
\* most one session whose isActive flag is true.
C10_OneActiveSession ==
    \A user \in Accounts : Cardinality(activeSessionsOf(user)) <= 1

\* C10's case: a user that held an active session has started another; the
\* earlier one is no longer active and the new one is.
C10_Witness ==
    /\ Did("startSession")
    /\ \E sessionId \in DOMAIN sessions :
           /\ sessions[sessionId].user = lastCall.sender
           /\ ~sessions[sessionId].isActive
           /\ sessions[sessionId].stateHash = 0
    /\ Cardinality(activeSessionsOf(lastCall.sender)) = 1

\* C11 (as claimed): once the session stored under a session identifier is
\* not active, no later operation makes the session under that identifier
\* active again, changes its stateHash or changes its actionsCount.
C11_TerminalSessions ==
    [][\A sessionId \in DOMAIN sessions :
           ~sessions[sessionId].isActive =>
               /\ ~getSession(sessionId).isActive'
               /\ getSession(sessionId).stateHash'
                      = sessions[sessionId].stateHash
               /\ getSession(sessionId).actionsCount'
                      = sessions[sessionId].actionsCount]_vars

\* C12 (as claimed): startSession by user u goes through; the session u had
\* recorded as active before the call is not active after it; the session
\* under the returned identifier is active with user u, startTime and
\* lastActivity the current time, actionsCount 0 and stateHash 0; and
\* getUserActiveSession(u) is the returned identifier.
C12_StartSession ==
    [][lastCall'.op = "startSession" =>
           /\ lastCall'.err = ""
           /\ \A sessionId \in DOMAIN sessions :
                  (/\ sessions[sessionId].user = lastCall'.sender
                   /\ sessions[sessionId].isActive) =>
                      ~getSession(sessionId).isActive'
           /\ \A u \in Accounts :
                  u = lastCall'.sender =>
                      /\ getUserActiveSession(u)' = lastCall'.target
                      /\ getSession(getUserActiveSession(u))' =
                             [user |-> u, startTime |-> blockTimestamp,
                              lastActivity |-> blockTimestamp,
                              isActive |-> TRUE, actionsCount |-> 0,
                              stateHash |-> 0]]_vars

\* C13 (as claimed): the identifier a startSession call allocates is not the
\* identifier of any session record that exists when the call is made, also
\* when the same user starts two sessions in blocks of the same timestamp
\* and prevrandao.
C13_FreshSessionId ==
    [][(lastCall'.op = "startSession" /\ lastCall'.err = "") =>
           \A sessionId \in DOMAIN sessions :
               sessionId # lastCall'.target]_vars

\* in this state: no session's actionsCount is above
\* MAX_ACTIONS_PER_SESSION, and a recordAction by the owner of an active,
\* unexpired session goes through when its actionsCount is below the cap and
\* reverts with the action-limit error when it is at the cap
C14_CapChecked ==
    \A sessionId \in DOMAIN sessions :
        LET session == sessions[sessionId]
        IN  /\ session.actionsCount <= MAX_ACTIONS_PER_SESSION
            /\ (/\ session.isActive
                /\ blockTimestamp <= session.lastActivity + SESSION_TIMEOUT) =>
                   recordActionRevert(session.user, sessionId) =
                       IF session.actionsCount < MAX_ACTIONS_PER_SESSION
                       THEN ""
                       ELSE "Session action limit reached"

\* C14: in every reachable state every session's actionsCount is at most
\* MAX_ACTIONS_PER_SESSION (100); a recordAction by the owner on an active,
\* unexpired session goes through while actionsCount < 100 and adds exactly 1
\* to the count, and reverts with "Session action limit reached" once
\* actionsCount = 100.
C14_ActionCap ==
    [][/\ C14_CapChecked
       /\ C14_CapChecked'
       /\ (lastCall'.op = "recordAction" /\ lastCall'.err = "") =>
              \A sessionId \in DOMAIN sessions :
                  sessionId = lastCall'.target =>
                      /\ sessions[sessionId].actionsCount
                             < MAX_ACTIONS_PER_SESSION
                      /\ getSession(sessionId).actionsCount'
                             = sessions[sessionId].actionsCount + 1]_vars

\* C14's case: the 100th recordAction of a session went through; the
\* session is still active and unexpired, and its owner's next recordAction
\* would be turned down at the cap.
C14_Witness ==
    /\ Did("recordAction")
    /\ getSession(lastCall.target).actionsCount = MAX_ACTIONS_PER_SESSION
    /\ getSession(lastCall.target).isActive
    /\ recordActionRevert(lastCall.sender, lastCall.target)
           = "Session action limit reached"

\* in this state: a recordAction by the owner of an active session below the
\* cap reverts with the expired error when the current time is past
\* lastActivity + SESSION_TIMEOUT and goes through otherwise, the current
\* time being lastActivity + SESSION_TIMEOUT included
C15_TimeoutChecked ==
    \A sessionId \in DOMAIN sessions :
        LET session == sessions[sessionId]
        IN  (/\ session.isActive
             /\ session.actionsCount < MAX_ACTIONS_PER_SESSION) =>
                recordActionRevert(session.user, sessionId) =
                    IF blockTimestamp > session.lastActivity + SESSION_TIMEOUT
                    THEN "Session expired"
                    ELSE ""

\* C15: for an active session below the cap, recordAction by its owner
\* reverts with "Session expired" iff the current time is greater than
\* lastActivity + SESSION_TIMEOUT; each recordAction that goes through sets
\* lastActivity to the current time, so that the timeout runs from the last
\* action that went through and not from the start of the session.
C15_Timeout ==
    [][/\ C15_TimeoutChecked
       /\ C15_TimeoutChecked'
       /\ (lastCall'.op = "recordAction" /\ lastCall'.err = "") =>
              \A sessionId \in DOMAIN sessions :
                  sessionId = lastCall'.target =>
                      /\ blockTimestamp
                             <= sessions[sessionId].lastActivity + SESSION_TIMEOUT
                      /\ getSession(sessionId).lastActivity' = blockTimestamp
                      /\ getSession(sessionId).startTime'
                             = sessions[sessionId].startTime]_vars

\* C15's case: a recordAction went through at a time past startTime +
\* SESSION_TIMEOUT, after an earlier one that went through exactly at
\* startTime + SESSION_TIMEOUT and moved lastActivity.
C15_Witness ==
    /\ Did("recordAction")
    /\ blockTimestamp
           > getSession(lastCall.target).startTime + SESSION_TIMEOUT
    /\ getSession(lastCall.target).lastActivity = blockTimestamp
    /\ \E i \in 1 .. Len(getSessionActions(lastCall.target)) :
           getSessionActions(lastCall.target)[i].timestamp
               = getSession(lastCall.target).startTime + SESSION_TIMEOUT

\* in this state: settleSession reverts exactly when the session is not
\* active or the caller is not its owner, whatever the clock and the
\* session's actionsCount
C16_SettleChecked ==
    \A sender \in Accounts, sessionId \in SessionIdInputs :
        settleSessionRevert(sender, sessionId) =
            IF ~getSession(sessionId).isActive THEN "Session not active"
            ELSE IF getSession(sessionId).user # sender THEN "Not session owner"
            ELSE ""

\* C16: settleSession(sessionId, hash) reverts, changing nothing, when the
\* session is not active or the caller is not its owner; otherwise it goes
\* through whatever the expiry and the action count, stores hash as
\* stateHash, makes the session non-active, sets getUserActiveSession(owner)
\* to bytes32(0) and reports the session's actionsCount in SessionSettled.
C16_SettleSession ==
    [][/\ C16_SettleChecked
       /\ C16_SettleChecked'
       /\ (lastCall'.op = "settleSession" /\ lastCall'.err # "") =>
              UNCHANGED <<sessionVars, registryVars>>
       /\ (lastCall'.op = "settleSession" /\ lastCall'.err = "") =>
              \A sessionId \in DOMAIN sessions :
                  sessionId = lastCall'.target =>
                      LET session == sessions[sessionId]
                      IN  /\ session.isActive
                          /\ session.user = lastCall'.sender
                          /\ sessions' =
                                 [sessions EXCEPT ![sessionId] =
                                     [session EXCEPT
                                         !.stateHash = lastCall'.arg,
                                         !.isActive = FALSE]]
                          /\ userActiveSession' =
                                 [userActiveSession EXCEPT
                                     ![session.user] = NoSessionId]
                          /\ sessionActions' = sessionActions
                          /\ lastCall'.events =
                                 << <<"SessionSettled", sessionId, session.user,
                                      session.actionsCount>> >>]_vars

\* C16's case: a session that had taken actions and was past its timeout
\* has been settled by its owner.
C16_Witness ==
    /\ Did("settleSession")
    /\ getSession(lastCall.target).actionsCount > 0
    /\ blockTimestamp
           > getSession(lastCall.target).lastActivity + SESSION_TIMEOUT
    /\ ~getSession(lastCall.target).isActive
    /\ getSession(lastCall.target).stateHash = lastCall.arg
    /\ getUserActiveSession(lastCall.sender) = NoSessionId

\* in this state: cleanupExpiredSession, whoever calls it, reverts when the
\* session is not active, reverts with the not-expired error when the
\* current time is at most lastActivity + SESSION_TIMEOUT, and goes through
\* otherwise
C17_CleanupChecked ==
    \A sessionId \in SessionIdInputs :
        cleanupExpiredSessionRevert(sessionId) =
            IF ~getSession(sessionId).isActive THEN "Session not active"
            ELSE IF blockTimestamp
                        <= getSession(sessionId).lastActivity + SESSION_TIMEOUT
                 THEN "Session not expired"
            ELSE ""

\* C17: cleanupExpiredSession(sessionId), called by any identity, reverts
\* when the session is not active, reverts with "Session not expired" when
\* the current time <= lastActivity + SESSION_TIMEOUT, and otherwise makes
\* the session non-active and clears its owner's active-session pointer,
\* leaving stateHash at zero and actionsCount unchanged.
C17_CleanupExpiredSession ==
    [][/\ C17_CleanupChecked
       /\ C17_CleanupChecked'
       /\ (lastCall'.op = "cleanupExpiredSession" /\ lastCall'.err # "") =>
              UNCHANGED <<sessionVars, registryVars>>
       /\ (lastCall'.op = "cleanupExpiredSession" /\ lastCall'.err = "") =>
              \A sessionId \in DOMAIN sessions :
                  sessionId = lastCall'.target =>
                      LET session == sessions[sessionId]
                      IN  /\ session.isActive
                          /\ blockTimestamp
                                 > session.lastActivity + SESSION_TIMEOUT
                          /\ sessions' =
                                 [sessions EXCEPT ![sessionId] =
                                     [session EXCEPT !.isActive = FALSE]]
                          /\ getSession(sessionId).stateHash' = 0
                          /\ userActiveSession' =
                                 [userActiveSession EXCEPT
                                     ![session.user] = NoSessionId]
                          /\ sessionActions' = sessionActions]_vars

\* C17's case: an account that does not own it has cleaned up an expired
\* session that had taken actions.
C17_Witness ==
    /\ Did("cleanupExpiredSession")
    /\ lastCall.sender # getSession(lastCall.target).user
    /\ getSession(lastCall.target).actionsCount > 0
    /\ ~getSession(lastCall.target).isActive
    /\ getSession(lastCall.target).stateHash = 0
    /\ getUserActiveSession(getSession(lastCall.target).user) = NoSessionId

\* C18: isSessionValid(sessionId) is true iff the session is active, the
\* current time <= lastActivity + SESSION_TIMEOUT and actionsCount < 100;
\* it is true exactly in the states where a recordAction of the session's
\* owner would go through, and false for an identifier no session has.
\* (isSessionValid is a view function: a function of the state.)
C18_IsSessionValid ==
    \A sessionId \in SessionIdInputs :
        /\ isSessionValid(sessionId) <=>
               /\ getSession(sessionId).isActive
               /\ blockTimestamp
                      <= getSession(sessionId).lastActivity + SESSION_TIMEOUT
               /\ getSession(sessionId).actionsCount < MAX_ACTIONS_PER_SESSION
        /\ isSessionValid(sessionId) <=>
               recordActionRevert(getSession(sessionId).user, sessionId) = ""
        /\ sessionId \notin DOMAIN sessions => ~isSessionValid(sessionId)

\* C18's case: an active session that has taken actions and is below the
\* cap is past its timeout, its owner's recordAction has just been turned
\* down as expired, and isSessionValid is false for it (and for bytes32(0)).
C18_Witness ==
    /\ Failed("recordAction")
    /\ lastCall.err = "Session expired"
    /\ ~isSessionValid(NoSessionId)
    /\ \E sessionId \in DOMAIN sessions :
           /\ sessions[sessionId].isActive
           /\ sessions[sessionId].actionsCount > 0
           /\ sessions[sessionId].actionsCount < MAX_ACTIONS_PER_SESSION
           /\ ~isSessionValid(sessionId)

\* C19, the append-only part: while a session stays active the entries of
\* its action list are never changed or removed, and a recordAction that
\* goes through appends exactly one entry at the end.
C19_AppendOnly ==
    \A sessionId \in DOMAIN sessions :
        (sessions[sessionId].isActive /\ getSession(sessionId).isActive') =>
            IF /\ lastCall'.op = "recordAction" /\ lastCall'.err = ""
               /\ lastCall'.target = sessionId
            THEN /\ Len(getSessionActions(sessionId)')
                        = Len(getSessionActions(sessionId)) + 1
                 /\ SubSeq(getSessionActions(sessionId)', 1,
                           Len(getSessionActions(sessionId)))
                        = getSessionActions(sessionId)
            ELSE getSessionActions(sessionId)' = getSessionActions(sessionId)

\* C19 (as claimed): a session's action list is append-only while the
\* session is active, and the whole list is discarded when the session is
\* settled or ended: getSessionActions of a session that is not active
\* returns the empty list.
C19_ActionList ==
    [][/\ C19_AppendOnly
       /\ \A sessionId \in DOMAIN sessions :
              ~getSession(sessionId).isActive' =>
                  getSessionActions(sessionId)' = <<>>]_vars

\* C19's append-only part on its own.
C19_AppendOnlyHolds == [][C19_AppendOnly]_vars

\* the composite score of a token as C20 counts it: the floor of the mean
\* of the three stored scores, and 0 for a token without a record
C20_composite(token) ==
    IF riskRegistry[token] = NoRiskData THEN 0
    ELSE (riskRegistry[token].holderConcentration
          + riskRegistry[token].liquidityOwnership
          + riskRegistry[token].governanceCapture) \div 3

\* shouldBlock as C20 gives it for a pair of tokens in the current mode
C20_shouldBlock(token0, token1) ==
    LET c0 == C20_composite(token0)
        c1 == C20_composite(token1)
        max == IF c0 >= c1 THEN c0 ELSE c1
    IN  CASE hookMode = WARN_ONLY -> FALSE
          [] hookMode = BLOCK_HIGH -> max >= 70
          [] hookMode = STRICT -> max >= 40

\* in this state: for every pair of tokens the view shouldBlockSwap returns
\* the shouldBlock of C20_shouldBlock, and setHookMode goes through for the
\* hook owner only
C20_Decision ==
    /\ \A token0 \in Tokens, token1 \in Tokens :
           shouldBlockSwap(token0, token1)[1] = C20_shouldBlock(token0, token1)
    /\ \A sender \in Accounts :
           setHookModeRevert(sender) = "" <=> sender = hookOwner

\* C20: for every pair of tokens and every registry state, validateSwap,
\* analyzeSwapRisk and shouldBlockSwap return shouldBlock = false in
\* WARN_ONLY mode, (max >= 70) in BLOCK_HIGH mode and (max >= 40) in STRICT
\* mode, max being the larger of the two tokens' composite scores and a
\* token without a record counting as 0; the mode changes only by a
\* setHookMode call of the hook owner.  (What the views return is a function
\* of the registry and of the hook's storage: it is looked at in the state
\* after construction and after every step that changes either.)
C20_BlockingByMode ==
    [][/\ lastCall.op = "constructor" => C20_Decision
       /\ (UNCHANGED <<riskRegistry, hookVars>>) \/ C20_Decision'
       /\ (lastCall'.op \in {"validateSwap", "analyzeSwapRisk"}) =>
              /\ lastCall'.err = ""
              /\ UNCHANGED <<registryVars, hookVars>>
              /\ \A token0 \in Tokens, token1 \in Tokens :
                     lastCall'.target = <<token0, token1>> =>
                         lastCall'.arg[1] = C20_shouldBlock(token0, token1)
       /\ hookMode' # hookMode =>
              /\ lastCall'.op = "setHookMode" /\ lastCall'.err = ""
              /\ lastCall'.sender = hookOwner
              /\ hookMode' = lastCall'.arg
       /\ (lastCall'.op = "setHookMode" /\ lastCall'.err # "") =>
              hookMode' = hookMode]_vars

\* C20's case: in STRICT mode, set by the owner the hook was transferred
\* to, validateSwap has blocked a pair whose larger composite is exactly 40,
\* one token of the pair having no record.
C20_Witness ==
    /\ Did("validateSwap")
    /\ hookMode = STRICT
    /\ hookOwner # Deployer
    /\ lastCall.arg[1] = TRUE
    /\ \E token0 \in Tokens, token1 \in Tokens :
           /\ lastCall.target = <<token0, token1>>
           /\ ~hasRiskData(token0)
           /\ getCompositeRiskScore(token1) = 40

\* how many events of this name the last call emitted
emitted(name) ==
    Cardinality({i \in 1 .. Len(lastCall.events) : lastCall.events[i][1] = name})

\* the larger of the two tokens' composite scores, a token without a record
\* counting as 0
maxComposite(token0, token1) ==
    IF C20_composite(token0) >= C20_composite(token1)
    THEN C20_composite(token0)
    ELSE C20_composite(token1)

\* C21: a validateSwap or analyzeSwapRisk call emits SwapBlocked (once) iff
\* it returns shouldBlock = true, emits SwapWarning (once) iff it returns
\* shouldBlock = false and the larger composite is >= 40, scores >= 70 in
\* WARN_ONLY mode included, and emits neither when the larger composite is
\* below 40; it never emits both.
C21_BlockedOrWarning ==
    (Did("validateSwap") \/ Did("analyzeSwapRisk")) =>
        LET max == maxComposite(lastCall.target[1], lastCall.target[2])
            shouldBlock == lastCall.arg[1]
        IN  /\ emitted("SwapBlocked") = (IF shouldBlock THEN 1 ELSE 0)
            /\ emitted("SwapWarning")
                   = (IF ~shouldBlock /\ max >= 40 THEN 1 ELSE 0)
            /\ max < 40 =>
                   emitted("SwapBlocked") = 0 /\ emitted("SwapWarning") = 0
            /\ emitted("SwapBlocked") + emitted("SwapWarning") <= 1

\* C21's case: in WARN_ONLY mode analyzeSwapRisk let through a pair whose
\* larger composite is 70 and emitted SwapWarning.
C21_Witness ==
    /\ Did("analyzeSwapRisk")
    /\ hookMode = WARN_ONLY
    /\ maxComposite(lastCall.target[1], lastCall.target[2]) = 70
    /\ lastCall.arg[1] = FALSE
    /\ emitted("SwapWarning") = 1
    /\ emitted("SwapBlocked") = 0

\* the (risk, reason) C22 gives for a token: first match, in the order no
\* record, holder, liquidity, governance, composite
C22_riskAndReason(token) ==
    LET data == riskRegistry[token]
        composite == (data.holderConcentration + data.liquidityOwnership
                      + data.governanceCapture) \div 3
    IN  IF data = NoRiskData THEN <<0, "No risk data available">>
        ELSE IF data.holderConcentration >= 70
             THEN <<composite, "High holder concentration risk">>
        ELSE IF data.liquidityOwnership >= 70
             THEN <<composite, "High liquidity ownership risk">>
        ELSE IF data.governanceCapture >= 70
             THEN <<composite, "High governance capture risk">>
        ELSE IF composite >= 40
             THEN <<composite, "Multiple moderate risk factors">>
        ELSE <<composite, "Low risk profile">>

\* C22: for every token the reason is the first match of: no record ->
\* (0, "No risk data available"); holder >= 70 -> "High holder concentration
\* risk"; liquidity >= 70 -> "High liquidity ownership risk"; governance >=
\* 70 -> "High governance capture risk"; composite >= 40 -> "Multiple
\* moderate risk factors"; else "Low risk profile".  getTokenRisk and
\* _getTokenRiskWithReason give the same (risk, reason).
C22_ReasonByFirstMatch ==
    \A token \in Tokens :
        /\ getTokenRisk(token) = C22_riskAndReason(token)
        /\ <<_getTokenRiskWithReason(token).risk,
             _getTokenRiskWithReason(token).reason>> = getTokenRisk(token)

\* C22's case: validateSwap has looked at a token whose three scores are
\* all 70 (reason: holder) and at one with composite 51 and governance 78
\* (reason: governance), and explained both.
C22_Witness ==
    /\ Did("validateSwap")
    /\ emitted("RiskExplanation") = 2
    /\ \E token0 \in Tokens, token1 \in Tokens :
           /\ lastCall.target = <<token0, token1>>
           /\ getRiskScores(token0)[1] = 70 /\ getRiskScores(token0)[2] = 70
           /\ getTokenRisk(token0) = <<70, "High holder concentration risk">>
           /\ getTokenRisk(token1) = <<51, "High governance capture risk">>

\* C23 (as claimed): with the record (80, 10, 10) stored for tokenX and no
\* record for tokenY, the hook decision for (tokenX, tokenY) in BLOCK_HIGH
\* mode is shouldBlock = true with the reason "High holder concentration
\* risk": what shouldBlockSwap returns, and what validateSwap and
\* analyzeSwapRisk returned when they were the last call.
C23_HighHolderScenario ==
    \A tokenX \in RealTokens, tokenY \in Tokens :
        (/\ hookMode = BLOCK_HIGH
         /\ getRiskScores(tokenX)[1] = 80
         /\ getRiskScores(tokenX)[2] = 10
         /\ getRiskScores(tokenX)[3] = 10
         /\ hasRiskData(tokenX)
         /\ riskRegistry[tokenY] = NoRiskData) =>
            /\ shouldBlockSwap(tokenX, tokenY)
                   = <<TRUE, "High holder concentration risk">>
            /\ ((Did("validateSwap") \/ Did("analyzeSwapRisk"))
                /\ lastCall.target = <<tokenX, tokenY>>) =>
                   lastCall.arg = <<TRUE, "High holder concentration risk">>

\* C24: recordAction checks not-active, not-owner, expired, limit-reached in
\* this order and reports the first that applies: not-active for an unknown
\* or non-active session whoever calls; not-owner for a non-owner on an
\* active session, expired or at the cap or not; expired for the owner of a
\* session that is both expired and at the cap.
C24_CheckOrder ==
    \A sender \in Accounts, sessionId \in SessionIdInputs :
        LET session == getSession(sessionId)
            notActive == sessionId \notin DOMAIN sessions \/ ~session.isActive
            notOwner == session.user # sender
            expired == blockTimestamp > session.lastActivity + SESSION_TIMEOUT
            atCap == session.actionsCount >= 100
        IN  recordActionRevert(sender, sessionId) =
                IF notActive THEN "Session not active"
                ELSE IF notOwner THEN "Not session owner"
                ELSE IF expired THEN "Session expired"
                ELSE IF atCap THEN "Session action limit reached"
                ELSE ""

\* C24's case: a recordAction was turned down as expired on an active
\* session that is both past its timeout and at the cap; the account that
\* does not own the session would be told it is not the owner.
C24_Witness ==
    /\ Failed("recordAction")
    /\ lastCall.err = "Session expired"
    /\ \E sessionId \in DOMAIN sessions :
           /\ sessions[sessionId].isActive
           /\ sessions[sessionId].actionsCount = MAX_ACTIONS_PER_SESSION
           /\ blockTimestamp
                  > sessions[sessionId].lastActivity + SESSION_TIMEOUT
           /\ \E sender \in Accounts :
                  /\ sender # sessions[sessionId].user
                  /\ recordActionRevert(sender, sessionId) = "Not session owner"

\* C25: in every reachable state of the session manager, for every user u:
\* if getUserActiveSession(u) is not bytes32(0) the session under it is
\* active and owned by u, and every active session owned by u is the one
\* getUserActiveSession(u) points to.
C25_PointerConsistent ==
    \A u \in Accounts :
        /\ getUserActiveSession(u) # NoSessionId =>
               /\ getUserActiveSession(u) \in DOMAIN sessions
               /\ getSession(getUserActiveSession(u)).isActive
               /\ getSession(getUserActiveSession(u)).user = u
        /\ \A sessionId \in DOMAIN sessions :
               (sessions[sessionId].isActive /\ sessions[sessionId].user = u) =>
                   getUserActiveSession(u) = sessionId

\* C25's case: an expired session was cleaned up by an account that still
\* holds an active session itself: the pointer of the session's owner is
\* bytes32(0), the pointer of the caller is its own session.
C25_Witness ==
    /\ Did("cleanupExpiredSession")
    /\ getSession(lastCall.target).user # lastCall.sender
    /\ getUserActiveSession(getSession(lastCall.target).user) = NoSessionId
    /\ getUserActiveSession(lastCall.sender) # NoSessionId
    /\ getSession(getUserActiveSession(lastCall.sender)).isActive

\* C26 (as claimed): in every reachable state, for every session
\* identifier, the session's actionsCount equals the number of entries of
\* getSessionActions for that identifier, and every entry's timestamp lies
\* between the session's startTime and its lastActivity.
C26_CountMatchesLog ==
    \A sessionId \in DOMAIN sessions \cup DOMAIN sessionActions
                      \cup {NoSessionId} :
        /\ getSession(sessionId).actionsCount = Len(getSessionActions(sessionId))
        /\ \A i \in 1 .. Len(getSessionActions(sessionId)) :
               /\ getSession(sessionId).startTime
                      <= getSessionActions(sessionId)[i].timestamp
               /\ getSessionActions(sessionId)[i].timestamp
                      <= getSession(sessionId).lastActivity

\* a decision <<shouldBlock, reason>> of the hook as C27 allows it in the
\* current mode
C27_allowed(decision) ==
    /\ (decision[1] /\ hookMode = BLOCK_HIGH) =>
           decision[2] \in {"High holder concentration risk",
                            "High liquidity ownership risk",
                            "High governance capture risk"}
    /\ decision[1] =>
           decision[2] \notin {"No risk data available", "Low risk profile"}

\* C27: for every pair of tokens and every registry state, whenever the hook
\* returns shouldBlock = true in BLOCK_HIGH mode the reason is one of the
\* three "High ... risk" strings, and in no mode does it return shouldBlock =
\* true with the reason "No risk data available" or "Low risk profile".
C27_BlockedHasReason ==
    /\ \A token0 \in Tokens, token1 \in Tokens :
           C27_allowed(shouldBlockSwap(token0, token1))
    /\ Did("validateSwap") => C27_allowed(lastCall.arg)

\* C27's case: in BLOCK_HIGH mode validateSwap blocked a pair for a token
\* whose holder and liquidity scores are below 70 and whose composite is at
\* least 70; the reason is the governance one.
C27_Witness ==
    /\ Did("validateSwap")
    /\ hookMode = BLOCK_HIGH
    /\ lastCall.arg = <<TRUE, "High governance capture risk">>
    /\ emitted("SwapBlocked") = 1

\* the reason C28 gives for a pair: the first token's only when its
\* composite is strictly greater than the second's
C28_reason(token0, token1) ==
    IF C20_composite(token0) > C20_composite(token1)
    THEN C22_riskAndReason(token0)[2]
    ELSE C22_riskAndReason(token1)[2]

\* C28: the reason the hook decision returns is the first token's reason
\* only when the first token's composite is strictly greater than the
\* second's, and the second token's reason otherwise, equal composites
\* included (a recorded token with composite 0 paired with a token without
\* a record gives the second token's reason).
C28_ReasonOfMaximum ==
    /\ \A token0 \in Tokens, token1 \in Tokens :
           shouldBlockSwap(token0, token1)[2] = C28_reason(token0, token1)
    /\ Did("validateSwap") =>
           lastCall.arg[2] = C28_reason(lastCall.target[1], lastCall.target[2])

\* C28's case: validateSwap was asked about a token with the record
\* (0, 0, 0) and, second, a token without a record, and returned the second
\* token's reason.
C28_Witness ==
    /\ Did("validateSwap")
    /\ hasRiskData(lastCall.target[1])
    /\ getCompositeRiskScore(lastCall.target[1]) = 0
    /\ ~hasRiskData(lastCall.target[2])
    /\ lastCall.arg[2] = "No risk data available"
    /\ getTokenRisk(lastCall.target[1])[2] = "Low risk profile"

\* a score that is a number outside 0..100
C29_outside(v) == v.type = "number" /\ (v.value < 0 \/ v.value > 100)

\* some score of the riskScores object (none, when there is no such object)
\* is a number outside 0..100
C29_someOutside(riskScores) ==
    /\ riskScores.type = "object"
    /\ \/ C29_outside(riskScores.holderConcentration)
       \/ C29_outside(riskScores.liquidityOwnership)
       \/ C29_outside(riskScores.governanceCapture)

\* the three scores of the riskScores object are numbers in 0..100
C29_allInside(riskScores) ==
    /\ riskScores.type = "object"
    /\ \A v \in {riskScores.holderConcentration, riskScores.liquidityOwnership,
                 riskScores.governanceCapture} :
           v.type = "number" /\ v.value \in 0 .. 100

\* the on-chain updateRiskData of the recorded request goes through: the
\* configured address holds the registry, the scores are numbers of the
\* range, the key's account is an authorized updater and the token is not
\* address(0)
C29_onChainSucceeds(request) ==
    /\ registryAddress = RegistryContract
    /\ C29_allInside(request[2].riskScores)
    /\ authorizedUpdaters[request[3]]
    /\ request[1] # ZeroAddress

C30_Scores == {0, 1, 2, 50, 98, 99, 100}

\* the registry's composite of a triple: floor((h + l + g) / 3)
C30_floor(h, l, g) == (h + l + g) \div 3

\* C30's relation between the analyzer's composite (rounded) of the triple
\* (h, l, g) and the registry's composite (registry) of the same triple
C30_related(rounded, registry, h, l, g) ==
    /\ rounded >= registry
    /\ rounded - registry <= 1
    /\ (rounded = registry) <=> ((h + l + g) % 3 \in {0, 1})

\* C30: for every score triple (h, l, g) of integers in 0..100, the
\* analyzer's compositeScore Math.round((h + l + g) / 3) is never smaller
\* than the registry's composite floor((h + l + g) / 3), exceeds it by at
\* most 1, and equals it exactly when (h + l + g) mod 3 is 0 or 1: for the
\* triples of C30_Scores, and for every analysed token between the
\* compositeScore of its analysis and what getCompositeRiskScore returns
\* while the registry holds the scores of that analysis.
C30_RoundVsFloor ==
    /\ \A h \in C30_Scores, l \in C30_Scores, g \in C30_Scores :
           C30_related(compositeScore(h, l, g), C30_floor(h, l, g), h, l, g)
    /\ \A token \in Tokens :
           riskCache[token] # JsUndefined =>
               LET riskData == riskCache[token]
                   h == riskData.riskScores.holderConcentration.value
                   l == riskData.riskScores.liquidityOwnership.value
                   g == riskData.riskScores.governanceCapture.value
               IN  /\ C30_related(riskData.compositeScore, C30_floor(h, l, g),
                                  h, l, g)
                   /\ (/\ hasRiskData(token)
                       /\ getRiskScores(token)[1] = h
                       /\ getRiskScores(token)[2] = l
                       /\ getRiskScores(token)[3] = g) =>
                          C30_related(riskData.compositeScore,
                                      getCompositeRiskScore(token), h, l, g)

\* C30's case: the analysis of a token whose scores sum to 2 modulo 3 was
\* submitted, the registry holds its scores, and the analyzer's composite
\* is the registry's composite plus 1.
C30_Witness ==
    \E token \in Tokens :
        /\ riskCache[token] # JsUndefined
        /\ lastCall.op = "submitRiskData"
        /\ submission.request[2] = riskCache[token]
        /\ hasRiskData(token)
        /\ (getRiskScores(token)[1] + getRiskScores(token)[2]
                + getRiskScores(token)[3]) % 3 = 2
        /\ riskCache[token].compositeScore = getCompositeRiskScore(token) + 1

====
